---- MODULE Spec2Model ----
(***************************************************************************)
(* The course management service of src/main.py: two in-memory lists,      *)
(* courses and participants, and the seven request handlers that read and  *)
(* change them.  Each handler runs to completion (one action per request). *)
(***************************************************************************)
EXTENDS Integers, Sequences, FiniteSets, TLC

\* ---------------------------------------------------------------- bounds
\* the lists are unbounded in the program; the model stops appending here
MaxCourses == 2
MaxParticipants == 3

\* ------------------------------------------------------- request domains
IDs == {1, 2}
\* readings of the local clock, one per second
Times == {1}
CourseNames == {"Algo", "Data"}
Instructors == {"Ada"}
ParticipantNames == {"Bob"}

\* created_at: str | None = None
None == <<>>
\* the query parameter course_id: int | None = None, when it is left out
NoId == 0

\* get_time(): the local clock t (one value per second) rendered as text
get_time(t) == <<"Created on", t, ".">>
\* a created_at a client may put into a request body; the clock never yields it
ClientStamp == <<"Created on", 0, ".">>

\* class Course / class Participant, as they arrive in a request body
Course == [id : IDs, name : CourseNames, instructor : Instructors,
           created_at : {None}]
Participant == [id : IDs, name : ParticipantNames, course_id : IDs,
                created_at : {None}]

\* request bodies that may carry a created_at of the client's own; the
\* participant bodies all name participant 1
StampedCourse == [id : IDs, name : CourseNames, instructor : Instructors,
                  created_at : {None, ClientStamp}]
StampedParticipant == [id : {1}, name : ParticipantNames, course_id : IDs,
                       created_at : {None, ClientStamp}]
\* two readings of the clock, a second apart
TwoTimes == {1, 2}

\* course bodies of either instructor, with participant bodies that all name
\* participant 1
TaughtCourse == [id : IDs, name : CourseNames, instructor : {"Ada", "Eve"},
                 created_at : {None}]
OneParticipant == [id : {1}, name : ParticipantNames, course_id : IDs,
                   created_at : {None}]
\* participant bodies of either name, with course bodies of one name
NamedParticipant == [id : IDs, name : {"Bob", "Kim"}, course_id : IDs,
                     created_at : {None}]
OneNameCourse == [id : IDs, name : {"Algo"}, instructor : Instructors,
                  created_at : {None}]

\* ------------------------------------------------------------------ state
\* inflight is the delete_course or update_course_info call that a second
\* worker thread is running, with the statement it has reached and its locals
VARIABLES courses, participants, last, inflight
vars == <<courses, participants, last, inflight>>

\* ---------------------------------------------------------------- helpers
\* any(c.id == x for c in courses)
AnyCourseId(cs, x) == \E i \in 1..Len(cs) : cs[i].id = x
\* any(c.name == n for c in courses)
AnyCourseName(cs, n) == \E i \in 1..Len(cs) : cs[i].name = n
\* any(p.id == x for p in participants)
AnyParticipantId(ps, x) == \E i \in 1..Len(ps) : ps[i].id = x

\* index of the first record of s whose id is x (the for loops return at it)
FirstWithId(s, x) ==
    CHOOSE i \in 1..Len(s) : s[i].id = x /\ \A j \in 1..(i - 1) : s[j].id # x

\* list.remove(v): drops the first element that compares equal to v
ListRemove(s, v) ==
    LET i == CHOOSE k \in 1..Len(s) : s[k] = v /\ \A j \in 1..(k - 1) : s[j] # v
    IN  [k \in 1..(Len(s) - 1) |-> IF k < i THEN s[k] ELSE s[k + 1]]

\* a variant that stops at the first participant of the course
update_first_course_id(ps, former_id, updated_id) ==
    [i \in 1..Len(ps) |->
        IF former_id = ps[i].course_id
           /\ \A j \in 1..(i - 1) : ps[j].course_id # former_id
        THEN [ps[i] EXCEPT !.course_id = updated_id]
        ELSE ps[i]]

\* a variant that lacks the comparison with the former id
update_every_course_id(ps, former_id, updated_id) ==
    [i \in 1..Len(ps) |-> [ps[i] EXCEPT !.course_id = updated_id]]

\* update_individual_course_id(former_id, updated_id)
update_individual_course_id(ps, former_id, updated_id) ==
    [i \in 1..Len(ps) |->
        IF former_id = ps[i].course_id
        THEN [ps[i] EXCEPT !.course_id = updated_id]
        ELSE ps[i]]

\* a variant that drops only the first participant of the course
RECURSIVE delete_first_participant_by_course(_, _)
delete_first_participant_by_course(ps, course_id) ==
    IF ps = <<>> THEN <<>>
    ELSE IF Head(ps).course_id = course_id THEN Tail(ps)
    ELSE <<Head(ps)>> \o delete_first_participant_by_course(Tail(ps), course_id)

\* a variant that puts each participant that stays in front of the others
RECURSIVE delete_participants_by_course_reversed(_, _)
delete_participants_by_course_reversed(ps, course_id) ==
    IF ps = <<>> THEN <<>>
    ELSE LET rest == delete_participants_by_course_reversed(Tail(ps), course_id)
         IN  IF Head(ps).course_id # course_id THEN rest \o <<Head(ps)>> ELSE rest

\* delete_participants_by_course(course_id): the participants that stay
RECURSIVE delete_participants_by_course(_, _)
delete_participants_by_course(ps, course_id) ==
    IF ps = <<>> THEN <<>>
    ELSE LET rest == delete_participants_by_course(Tail(ps), course_id)
         IN  IF Head(ps).course_id # course_id THEN <<Head(ps)>> \o rest ELSE rest

\* the filter loop of get_participants
RECURSIVE filtered_list(_, _)
filtered_list(ps, course_id) ==
    IF ps = <<>> THEN <<>>
    ELSE LET rest == filtered_list(Tail(ps), course_id)
         IN  IF Head(ps).course_id = course_id THEN <<Head(ps)>> \o rest ELSE rest

\* what a handler leaves behind: the request (op, path, req), the response
\* (status_code, detail, body) and, for the record, how many participants its
\* cascade changed or removed
Reply(op, path, req, status, detail, body, cascade) ==
    [op |-> op, path |-> path, req |-> req,
     status_code |-> status, detail |-> detail, body |-> body,
     cascade |-> cascade]

\* the number of positions at which two lists of equal length differ
Changed(old, new) == Cardinality({i \in 1..Len(old) : old[i] # new[i]})

\* the locals of a call in flight: pc is the statement reached, i the position
\* of the course the loop has found, k the position the cascade loop is at,
\* and touched counts the participants of the cascade, for the record
Frame(pc, course_id, updated_course, course_to_delete, updated_participants, i, k, touched) ==
    [pc |-> pc, course_id |-> course_id, updated_course |-> updated_course,
     course_to_delete |-> course_to_delete,
     updated_participants |-> updated_participants, i |-> i, k |-> k,
     touched |-> touched]
\* no call in flight
Idle == Frame("idle", NoId, None, None, <<>>, 0, 0, 0)

\* ------------------------------------------------------------------- Init
Init ==
    /\ courses = <<>>
    /\ participants = <<>>
    /\ last = Reply("start", NoId, None, 200, "", None, 0)
    /\ inflight = Idle

\* ---------------------------------------------------------------- actions
\* GET /courses
get_courses ==
    /\ last' = Reply("get_courses", NoId, None, 200, "", courses, 0)
    /\ UNCHANGED <<courses, participants>>

\* a variant that checks the name before the id
add_course_name_first(course, t) ==
    IF AnyCourseName(courses, course.name)
    THEN /\ last' = Reply("add_course", NoId, course, 400,
                          "Course name already exists.", None, 0)
         /\ UNCHANGED <<courses, participants>>
    ELSE IF AnyCourseId(courses, course.id)
    THEN /\ last' = Reply("add_course", NoId, course, 400,
                          "Course ID already exists.", None, 0)
         /\ UNCHANGED <<courses, participants>>
    ELSE LET stored == [course EXCEPT !.created_at = get_time(t)]
         IN  /\ Len(courses) < MaxCourses
             /\ courses' = Append(courses, stored)
             /\ last' = Reply("add_course", NoId, course, 200, "", stored, 0)
             /\ UNCHANGED participants

\* POST /courses
add_course(course, t) ==
    IF AnyCourseId(courses, course.id)
    THEN /\ last' = Reply("add_course", NoId, course, 400,
                          "Course ID already exists.", None, 0)
         /\ UNCHANGED <<courses, participants>>
    ELSE IF AnyCourseName(courses, course.name)
    THEN /\ last' = Reply("add_course", NoId, course, 400,
                          "Course name already exists.", None, 0)
         /\ UNCHANGED <<courses, participants>>
    ELSE LET stored == [course EXCEPT !.created_at = get_time(t)]
         IN  /\ Len(courses) < MaxCourses
             /\ courses' = Append(courses, stored)
             /\ last' = Reply("add_course", NoId, course, 200, "", stored, 0)
             /\ UNCHANGED participants

\* a variant that stores the request body in place of the course
update_course_info_replace(course_id, updated_course) ==
    IF ~AnyCourseId(courses, course_id)
    THEN /\ last' = Reply("update_course_info", course_id, updated_course, 404,
                          "Course not found - there is nothing to update.", None, 0)
         /\ UNCHANGED <<courses, participants>>
    ELSE LET i == FirstWithId(courses, course_id)
         IN  /\ courses' = [courses EXCEPT ![i] = updated_course]
             /\ participants' = update_individual_course_id(
                                    participants, course_id, updated_course.id)
             /\ last' = Reply("update_course_info", course_id, updated_course,
                              200, "", updated_course,
                              Changed(participants, participants'))

\* a variant whose loop does not return at the first course it finds
update_course_info_every(course_id, updated_course) ==
    IF ~AnyCourseId(courses, course_id)
    THEN /\ last' = Reply("update_course_info", course_id, updated_course, 404,
                          "Course not found - there is nothing to update.", None, 0)
         /\ UNCHANGED <<courses, participants>>
    ELSE /\ courses' = [k \in 1..Len(courses) |->
                            IF courses[k].id = course_id
                            THEN [courses[k] EXCEPT
                                      !.id = updated_course.id,
                                      !.name = updated_course.name,
                                      !.instructor = updated_course.instructor]
                            ELSE courses[k]]
         /\ participants' = update_individual_course_id(
                                participants, course_id, updated_course.id)
         /\ last' = Reply("update_course_info", course_id, updated_course,
                          200, "", updated_course,
                          Changed(participants, participants'))

\* PUT /courses/{course_id}
update_course_info(course_id, updated_course) ==
    IF ~AnyCourseId(courses, course_id)
    THEN /\ last' = Reply("update_course_info", course_id, updated_course, 404,
                          "Course not found - there is nothing to update.", None, 0)
         /\ UNCHANGED <<courses, participants>>
    ELSE LET i == FirstWithId(courses, course_id)
         IN  /\ courses' = [courses EXCEPT ![i] =
                                [@ EXCEPT !.id = updated_course.id,
                                          !.name = updated_course.name,
                                          !.instructor = updated_course.instructor]]
             /\ participants' = update_individual_course_id(
                                    participants, course_id, updated_course.id)
             /\ last' = Reply("update_course_info", course_id, updated_course,
                              200, "", updated_course,
                              Changed(participants, participants'))

\* a variant that runs the cascade before it looks for the course
delete_course_cascade_first(course_id) ==
    /\ participants' = delete_participants_by_course(participants, course_id)
    /\ IF ~AnyCourseId(courses, course_id)
       THEN /\ last' = Reply("delete_course", course_id, None, 404,
                             "Course not found - nothing to delete.", None, 0)
            /\ UNCHANGED courses
       ELSE /\ courses' = ListRemove(courses, courses[FirstWithId(courses, course_id)])
            /\ last' = Reply("delete_course", course_id, None, 200, "", None,
                             Len(participants) - Len(participants'))

\* DELETE /courses/{course_id}
delete_course(course_id) ==
    IF ~AnyCourseId(courses, course_id)
    THEN /\ last' = Reply("delete_course", course_id, None, 404,
                          "Course not found - nothing to delete.", None, 0)
         /\ UNCHANGED <<courses, participants>>
    ELSE LET course_to_delete == courses[FirstWithId(courses, course_id)]
         IN  /\ courses' = ListRemove(courses, course_to_delete)
             /\ participants' = delete_participants_by_course(participants, course_id)
             /\ last' = Reply("delete_course", course_id, None, 200, "", None,
                              Len(participants) - Len(participants'))

\* a variant that filters without asking whether the course exists
get_participants_unchecked(course_id) ==
    /\ IF course_id # NoId
       THEN last' = Reply("get_participants", course_id, None, 200, "",
                          filtered_list(participants, course_id), 0)
       ELSE last' = Reply("get_participants", course_id, None, 200, "", participants, 0)
    /\ UNCHANGED <<courses, participants>>

\* GET /participants?course_id=
get_participants(course_id) ==
    /\ IF course_id # NoId
       THEN IF ~AnyCourseId(courses, course_id)
            THEN last' = Reply("get_participants", course_id, None, 404,
                               "Course not found.", None, 0)
            ELSE last' = Reply("get_participants", course_id, None, 200, "",
                               filtered_list(participants, course_id), 0)
       ELSE last' = Reply("get_participants", course_id, None, 200, "", participants, 0)
    /\ UNCHANGED <<courses, participants>>

\* a variant that checks the participant id before the course
add_participant_id_first(participant, t) ==
    IF AnyParticipantId(participants, participant.id)
    THEN /\ last' = Reply("add_participant", NoId, participant, 400,
                          "Participant ID already exists.", None, 0)
         /\ UNCHANGED <<courses, participants>>
    ELSE IF ~AnyCourseId(courses, participant.course_id)
    THEN /\ last' = Reply("add_participant", NoId, participant, 404,
                "Course not found. Create a course in order to create participants.",
                None, 0)
         /\ UNCHANGED <<courses, participants>>
    ELSE LET stored == [participant EXCEPT !.created_at = get_time(t)]
         IN  /\ Len(participants) < MaxParticipants
             /\ participants' = Append(participants, stored)
             /\ last' = Reply("add_participant", NoId, participant, 200, "", stored, 0)
             /\ UNCHANGED courses

\* a variant that does not ask whether the course exists
add_participant_any_course(participant, t) ==
    IF AnyParticipantId(participants, participant.id)
    THEN /\ last' = Reply("add_participant", NoId, participant, 400,
                          "Participant ID already exists.", None, 0)
         /\ UNCHANGED <<courses, participants>>
    ELSE LET stored == [participant EXCEPT !.created_at = get_time(t)]
         IN  /\ Len(participants) < MaxParticipants
             /\ participants' = Append(participants, stored)
             /\ last' = Reply("add_participant", NoId, participant, 200, "", stored, 0)
             /\ UNCHANGED courses

\* POST /participants
add_participant(participant, t) ==
    IF ~AnyCourseId(courses, participant.course_id)
    THEN /\ last' = Reply("add_participant", NoId, participant, 404,
                "Course not found. Create a course in order to create participants.",
                None, 0)
         /\ UNCHANGED <<courses, participants>>
    ELSE IF AnyParticipantId(participants, participant.id)
    THEN /\ last' = Reply("add_participant", NoId, participant, 400,
                          "Participant ID already exists.", None, 0)
         /\ UNCHANGED <<courses, participants>>
    ELSE LET stored == [participant EXCEPT !.created_at = get_time(t)]
         IN  /\ Len(participants) < MaxParticipants
             /\ participants' = Append(participants, stored)
             /\ last' = Reply("add_participant", NoId, participant, 200, "", stored, 0)
             /\ UNCHANGED courses

\* a variant that asks for the replacement's course, as add_participant does
update_participant_info_checked(participant_id, updated_participant) ==
    IF ~AnyParticipantId(participants, participant_id)
       \/ ~AnyCourseId(courses, updated_participant.course_id)
    THEN /\ last' = Reply("update_participant_info", participant_id,
                          updated_participant, 404,
                          "Participant not found - there is nothing to update.", None, 0)
         /\ UNCHANGED <<courses, participants>>
    ELSE LET i == FirstWithId(participants, participant_id)
             stored == [participants[i] EXCEPT
                            !.id = updated_participant.id,
                            !.name = updated_participant.name,
                            !.course_id = updated_participant.course_id]
         IN  /\ participants' = [participants EXCEPT ![i] = stored]
             /\ last' = Reply("update_participant_info", participant_id,
                              updated_participant, 200, "", stored, 0)
             /\ UNCHANGED courses

\* PUT /participants/{participant_id}
update_participant_info(participant_id, updated_participant) ==
    IF ~AnyParticipantId(participants, participant_id)
    THEN /\ last' = Reply("update_participant_info", participant_id,
                          updated_participant, 404,
                          "Participant not found - there is nothing to update.", None, 0)
         /\ UNCHANGED <<courses, participants>>
    ELSE LET i == FirstWithId(participants, participant_id)
             stored == [participants[i] EXCEPT
                            !.id = updated_participant.id,
                            !.name = updated_participant.name,
                            !.course_id = updated_participant.course_id]
         IN  /\ participants' = [participants EXCEPT ![i] = stored]
             /\ last' = Reply("update_participant_info", participant_id,
                              updated_participant, 200, "", stored, 0)
             /\ UNCHANGED courses

\* one request, its body drawn from the given request sets and the clock
\* reading from the given readings
Step(CourseReqs, ParticipantReqs, ParticipantUpdates, Clock) ==
    /\ \/ get_courses
       \/ \E course \in CourseReqs, t \in Clock : add_course(course, t)
       \/ \E course_id \in IDs, updated_course \in CourseReqs :
              update_course_info(course_id, updated_course)
       \/ \E course_id \in IDs : delete_course(course_id)
       \/ \E course_id \in IDs \cup {NoId} : get_participants(course_id)
       \/ \E participant \in ParticipantReqs, t \in Clock :
              add_participant(participant, t)
       \/ \E u \in ParticipantUpdates : update_participant_info(u[1], u[2])
    /\ UNCHANGED inflight

Next == Step(Course, Participant, IDs \X Participant, Times)

Spec == Init /\ [][Next]_vars

\* the same requests, with created_at values in the bodies and a moving clock
NextStamped ==
    Step(StampedCourse, StampedParticipant, IDs \X StampedParticipant, TwoTimes)

SpecStamped == Init /\ [][NextStamped]_vars

\* the same requests, with course bodies of either instructor
NextTaught ==
    Step(TaughtCourse, OneParticipant, IDs \X OneParticipant, Times)

SpecTaught == Init /\ [][NextTaught]_vars

\* the same requests, with participant bodies of either name
NextNamed ==
    Step(OneNameCourse, NamedParticipant, IDs \X NamedParticipant, Times)

SpecNamed == Init /\ [][NextNamed]_vars

\* the requests of Next without PUT /participants/{participant_id}
NextNoParticipantUpdate ==
    /\ \/ get_courses
       \/ \E course \in Course, t \in Times : add_course(course, t)
       \/ \E course_id \in IDs, updated_course \in Course :
              update_course_info(course_id, updated_course)
       \/ \E course_id \in IDs : delete_course(course_id)
       \/ \E course_id \in IDs \cup {NoId} : get_participants(course_id)
       \/ \E participant \in Participant, t \in Times :
              add_participant(participant, t)
    /\ UNCHANGED inflight

SpecNoParticipantUpdate == Init /\ [][NextNoParticipantUpdate]_vars

\* ------------------------------------------- a call in a second thread
\* The endpoints are plain functions (def), which the framework runs in worker
\* threads: a second request can be served between two statements of a call.
\* Here one delete_course or update_course_info call runs statement by
\* statement while GET requests are answered in between.

\* delete_course, line 139: the course is found
delete_course_find(course_id) ==
    /\ inflight = Idle
    /\ AnyCourseId(courses, course_id)
    /\ inflight' = Frame("found", course_id, None,
                         courses[FirstWithId(courses, course_id)], <<>>, 0, 0, 0)
    /\ UNCHANGED <<courses, participants, last>>

\* line 142: courses.remove(course_to_delete)
delete_course_remove ==
    /\ inflight.pc = "found"
    /\ courses' = ListRemove(courses, inflight.course_to_delete)
    /\ inflight' = [inflight EXCEPT !.pc = "removed"]
    /\ UNCHANGED <<participants, last>>

\* line 143: updated_participants = delete_participants_by_course(course_id)
delete_course_filter ==
    /\ inflight.pc = "removed"
    /\ LET kept == delete_participants_by_course(participants, inflight.course_id)
       IN  inflight' = [inflight EXCEPT
                            !.pc = "filtered",
                            !.updated_participants = kept,
                            !.touched = Len(participants) - Len(kept)]
    /\ UNCHANGED <<courses, participants, last>>

\* line 144: participants.clear()
delete_course_clear ==
    /\ inflight.pc = "filtered"
    /\ participants' = <<>>
    /\ inflight' = [inflight EXCEPT !.pc = "cleared"]
    /\ UNCHANGED <<courses, last>>

\* line 145: participants.extend(updated_participants), and the response
delete_course_extend ==
    /\ inflight.pc = "cleared"
    /\ participants' = participants \o inflight.updated_participants
    /\ last' = Reply("delete_course", inflight.course_id, None, 200, "", None,
                     inflight.touched)
    /\ inflight' = Idle
    /\ UNCHANGED courses

\* update_course_info, line 104: a course with the id exists
update_course_check(course_id, updated_course) ==
    /\ inflight = Idle
    /\ AnyCourseId(courses, course_id)
    /\ inflight' = Frame("checked", course_id, updated_course, None, <<>>, 0, 0, 0)
    /\ UNCHANGED <<courses, participants, last>>

\* lines 106-108: the loop finds the course; course.id = updated_course.id
update_course_id ==
    /\ inflight.pc = "checked"
    /\ LET i == FirstWithId(courses, inflight.course_id)
       IN  /\ courses' = [courses EXCEPT ![i].id = inflight.updated_course.id]
           /\ inflight' = [inflight EXCEPT !.pc = "id", !.i = i]
    /\ UNCHANGED <<participants, last>>

\* line 109: course.name = updated_course.name
update_course_name ==
    /\ inflight.pc = "id"
    /\ courses' = [courses EXCEPT ![inflight.i].name = inflight.updated_course.name]
    /\ inflight' = [inflight EXCEPT !.pc = "name"]
    /\ UNCHANGED <<participants, last>>

\* line 110: course.instructor = updated_course.instructor
update_course_instructor ==
    /\ inflight.pc = "name"
    /\ courses' = [courses EXCEPT
                       ![inflight.i].instructor = inflight.updated_course.instructor]
    /\ inflight' = [inflight EXCEPT !.pc = "cascade", !.k = 1]
    /\ UNCHANGED <<participants, last>>

\* lines 122-124: one turn of the loop of update_individual_course_id
update_course_cascade ==
    /\ inflight.pc = "cascade"
    /\ inflight.k <= Len(participants)
    /\ participants' =
           IF inflight.course_id = participants[inflight.k].course_id
           THEN [participants EXCEPT
                     ![inflight.k].course_id = inflight.updated_course.id]
           ELSE participants
    /\ inflight' = [inflight EXCEPT
                        !.k = @ + 1,
                        !.touched = IF participants' # participants THEN @ + 1 ELSE @]
    /\ UNCHANGED <<courses, last>>

\* line 112: the loop is through; return updated_course
update_course_return ==
    /\ inflight.pc = "cascade"
    /\ inflight.k > Len(participants)
    /\ last' = Reply("update_course_info", inflight.course_id,
                     inflight.updated_course, 200, "", inflight.updated_course,
                     inflight.touched)
    /\ inflight' = Idle
    /\ UNCHANGED <<courses, participants>>

\* the requests one at a time while no call is in flight; the steps of a call
\* in flight; and the GET requests a second thread answers in between
NextThreads ==
    \/ inflight = Idle /\ Step(Course, OneParticipant, IDs \X OneParticipant, Times)
    \/ \E course_id \in IDs : delete_course_find(course_id)
    \/ delete_course_remove
    \/ delete_course_filter
    \/ delete_course_clear
    \/ delete_course_extend
    \/ \E course_id \in IDs, updated_course \in Course :
           update_course_check(course_id, updated_course)
    \/ update_course_id
    \/ update_course_name
    \/ update_course_instructor
    \/ update_course_cascade
    \/ update_course_return
    \/ /\ inflight # Idle
       /\ get_courses \/ \E course_id \in IDs \cup {NoId} : get_participants(course_id)
       /\ UNCHANGED inflight

SpecThreads == Init /\ [][NextThreads]_vars

\* ================================================================ claims
\* the request that has just been answered, and how
\* the error kind of a response: 404 is NotFound, 400 a duplicate id or name
ErrorKind(r) ==
    IF r.status_code = 404 THEN "NotFound"
    ELSE IF r.status_code = 400 /\ r.op = "add_course"
                /\ r.detail = "Course name already exists." THEN "DuplicateName"
    ELSE IF r.status_code = 400 THEN "DuplicateId"
    ELSE "Ok"

Did(r, op) == r.op = op
Ok(r) == r.status_code = 200
Rejected(r) == ErrorKind(r) # "Ok"

\* C1: no two courses in the course collection have the same id.
CourseIdsUnique ==
    \A i, j \in 1..Len(courses) : i # j => courses[i].id # courses[j].id

\* C2: no two courses in the course collection have the same name.
CourseNamesUnique ==
    \A i, j \in 1..Len(courses) : i # j => courses[i].name # courses[j].name

\* C3: no two participants in the participant collection have the same id.
ParticipantIdsUnique ==
    \A i, j \in 1..Len(participants) :
        i # j => participants[i].id # participants[j].id

\* s without its element at position i
Without(s, i) == [k \in 1..(Len(s) - 1) |-> IF k < i THEN s[k] ELSE s[k + 1]]

\* C4: a successful delete_course(X) takes one course with id X out of the
\* course collection and leaves the other courses as they were; afterwards no
\* participant has course_id X, and the participants whose course_id was not X
\* are all still there, unchanged and in the same order.
DeleteCourseCascades ==
    [][(Did(last', "delete_course") /\ Ok(last')) =>
        LET X == last'.path
            Stays(p) == p.course_id # X
        IN  /\ \E i \in 1..Len(courses) :
                   courses[i].id = X /\ courses' = Without(courses, i)
            /\ \A k \in 1..Len(participants') : participants'[k].course_id # X
            /\ participants' = SelectSeq(participants, Stays)]_vars

\* a delete_course has removed a participant and left two different ones
DeleteCourseCascadesWitness ==
    /\ Did(last, "delete_course") /\ Ok(last)
    /\ last.cascade >= 1
    /\ Len(participants) >= 2
    /\ participants[1] # participants[2]

\* C5: a list_participants(course_id=X) that directly follows a successful
\* delete_course(X) fails with NotFound.
ListAfterDeleteNotFound ==
    [][(/\ Did(last, "delete_course") /\ Ok(last)
        /\ Did(last', "get_participants") /\ last'.path = last.path)
       => ErrorKind(last') = "NotFound"]_vars

\* C6: a successful update_course(A, replacement) with replacement.id = B # A
\* sets course_id to B on every participant whose course_id was A and leaves
\* every other participant unchanged; no participant has course_id A
\* afterwards, and the participant collection keeps its length and order.
RenameCascades ==
    [][(Did(last', "update_course_info") /\ Ok(last')
            /\ last'.req.id # last'.path) =>
        LET A == last'.path
            B == last'.req.id
        IN  /\ Len(participants') = Len(participants)
            /\ \A k \in 1..Len(participants) :
                   IF participants[k].course_id = A
                   THEN participants'[k] = [participants[k] EXCEPT !.course_id = B]
                   ELSE participants'[k] = participants[k]
            /\ \A k \in 1..Len(participants') : participants'[k].course_id # A]_vars

\* an update_course has moved two participants to the new id and left one alone
RenameCascadesWitness ==
    /\ Did(last, "update_course_info") /\ Ok(last)
    /\ last.req.id # last.path
    /\ last.cascade >= 2
    /\ Len(participants) > last.cascade

\* C7: create_participant with a course_id that matches no course fails with
\* NotFound, whatever the candidate's id, and leaves the participants unchanged.
CreateParticipantNeedsCourse ==
    [][(Did(last', "add_participant")
            /\ ~AnyCourseId(courses, last'.req.course_id)) =>
        /\ ErrorKind(last') = "NotFound"
        /\ participants' = participants]_vars

\* a create_participant was rejected whose course is missing and whose id is taken
CreateParticipantNeedsCourseWitness ==
    /\ Did(last, "add_participant")
    /\ ~AnyCourseId(courses, last.req.course_id)
    /\ AnyParticipantId(participants, last.req.id)
    /\ ErrorKind(last) = "NotFound"

\* C8: create_course answers DuplicateId if a course has the candidate's id,
\* otherwise DuplicateName if a course has its name, and otherwise appends the
\* candidate as the last course; a rejected call leaves the courses unchanged.
CreateCourseChecks ==
    [][Did(last', "add_course") =>
        LET c == last'.req
        IN  IF AnyCourseId(courses, c.id)
            THEN ErrorKind(last') = "DuplicateId" /\ courses' = courses
            ELSE IF AnyCourseName(courses, c.name)
            THEN ErrorKind(last') = "DuplicateName" /\ courses' = courses
            ELSE /\ Ok(last')
                 /\ Len(courses') = Len(courses) + 1
                 /\ SubSeq(courses', 1, Len(courses)) = courses
                 /\ courses'[Len(courses')].id = c.id
                 /\ courses'[Len(courses')].name = c.name
                 /\ courses'[Len(courses')].instructor = c.instructor]_vars

\* a create_course whose id and name are both taken was answered DuplicateId
CreateCourseChecksWitness ==
    /\ Did(last, "add_course")
    /\ AnyCourseId(courses, last.req.id)
    /\ AnyCourseName(courses, last.req.name)
    /\ ErrorKind(last) = "DuplicateId"

\* C9: a request answered NotFound, DuplicateId or DuplicateName leaves both
\* collections as they were.
RejectedChangesNothing ==
    [][Rejected(last') => (courses' = courses /\ participants' = participants)]_vars

\* a delete_course was rejected while participants still carry its course_id
RejectedChangesNothingWitness ==
    /\ Did(last, "delete_course")
    /\ ErrorKind(last) = "NotFound"
    /\ \E k \in 1..Len(participants) : participants[k].course_id = last.path

\* the created_at values of a list of records, in order
CreatedAts(s) == [k \in 1..Len(s) |-> s[k].created_at]
\* a text the clock has produced
IsClockReading(v) == \E t \in TwoTimes : v = get_time(t)

\* C10: every stored course and participant has the created_at its create
\* request stamped from the clock, whatever the request body carried, and no
\* update_course, update_participant, rename-cascade or delete-cascade changes
\* the created_at of a record that stays stored.
CreatedAtSetOnce ==
    [][/\ \A k \in 1..Len(courses') : IsClockReading(courses'[k].created_at)
       /\ \A k \in 1..Len(participants') :
              IsClockReading(participants'[k].created_at)
       /\ (Did(last', "add_course") /\ Ok(last')) =>
              /\ CreatedAts(courses') = Append(CreatedAts(courses),
                                               last'.body.created_at)
              /\ CreatedAts(participants') = CreatedAts(participants)
       /\ (Did(last', "add_participant") /\ Ok(last')) =>
              /\ CreatedAts(participants') = Append(CreatedAts(participants),
                                                    last'.body.created_at)
              /\ CreatedAts(courses') = CreatedAts(courses)
       /\ (Did(last', "update_course_info") \/ Did(last', "update_participant_info")) =>
              /\ CreatedAts(courses') = CreatedAts(courses)
              /\ CreatedAts(participants') = CreatedAts(participants)
       /\ (Did(last', "delete_course") /\ Ok(last')) =>
              LET Stays(p) == p.course_id # last'.path
              IN  /\ \E i \in 1..Len(courses) :
                         CreatedAts(courses') = Without(CreatedAts(courses), i)
                  /\ CreatedAts(participants') =
                         CreatedAts(SelectSeq(participants, Stays))]_vars

\* an update_course whose body carries a created_at of its own has renamed a
\* course and moved a participant, and records of both clock readings are stored
CreatedAtSetOnceWitness ==
    /\ Did(last, "update_course_info") /\ Ok(last)
    /\ last.req.created_at = ClientStamp
    /\ last.cascade >= 1
    /\ \E k \in 1..Len(courses) :
           courses[k].id = last.req.id /\ courses[k].created_at = get_time(2)
    /\ \E k \in 1..Len(participants) : participants[k].created_at = get_time(1)

\* the position of the first record of s with id x, put without CHOOSE
IsFirstWithId(s, i, x) ==
    i \in 1..Len(s) /\ s[i].id = x /\ \A j \in 1..(i - 1) : s[j].id # x

\* C11: update_course(course_id, replacement) answers NotFound exactly when
\* no course has id course_id; otherwise it overwrites id, name and instructor
\* of the first course with that id, at its position, and leaves every other
\* course unchanged.
UpdateCourseOverwritesOne ==
    [][Did(last', "update_course_info") =>
        IF ~AnyCourseId(courses, last'.path)
        THEN ErrorKind(last') = "NotFound" /\ courses' = courses
        ELSE /\ Ok(last')
             /\ Len(courses') = Len(courses)
             /\ \A i \in 1..Len(courses) :
                    IF IsFirstWithId(courses, i, last'.path)
                    THEN /\ courses'[i].id = last'.req.id
                         /\ courses'[i].name = last'.req.name
                         /\ courses'[i].instructor = last'.req.instructor
                         /\ courses'[i].created_at = courses[i].created_at
                    ELSE courses'[i] = courses[i]]_vars

\* an update_course has given the first of two courses of one id a new id and
\* another instructor, and the second course still has the old id
UpdateCourseOverwritesOneWitness ==
    /\ Did(last, "update_course_info") /\ Ok(last)
    /\ last.req.id # last.path
    /\ Len(courses) = 2
    /\ courses[1].id = last.req.id /\ courses[1].instructor = "Eve"
    /\ courses[2].id = last.path /\ courses[2].instructor = "Ada"

\* C12: update_participant(participant_id, replacement) answers NotFound
\* exactly when no participant has id participant_id; otherwise it succeeds
\* for every replacement, overwrites id, name and course_id of the first
\* participant with that id, and leaves every other participant and all the
\* courses unchanged.
UpdateParticipantOverwritesOne ==
    [][Did(last', "update_participant_info") =>
        /\ courses' = courses
        /\ IF ~AnyParticipantId(participants, last'.path)
           THEN ErrorKind(last') = "NotFound" /\ participants' = participants
           ELSE /\ Ok(last')
                /\ Len(participants') = Len(participants)
                /\ \A i \in 1..Len(participants) :
                       IF IsFirstWithId(participants, i, last'.path)
                       THEN /\ participants'[i].id = last'.req.id
                            /\ participants'[i].name = last'.req.name
                            /\ participants'[i].course_id = last'.req.course_id
                            /\ participants'[i].created_at = participants[i].created_at
                       ELSE participants'[i] = participants[i]]_vars

\* an update_participant has succeeded with a course_id that no course has and
\* an id that another participant has, on the first of two participants
UpdateParticipantOverwritesOneWitness ==
    /\ Did(last, "update_participant_info") /\ Ok(last)
    /\ ~AnyCourseId(courses, last.req.course_id)
    /\ Len(participants) >= 2
    /\ participants[1] = last.body /\ participants[1].name = "Kim"
    /\ participants[2].id = last.req.id /\ participants[2].name = "Bob"

\* C13: list_participants with a course_id answers NotFound exactly when no
\* course has that id and otherwise returns the participants of that course_id
\* in the order of the participant collection; without a course_id it returns
\* the whole collection; it changes neither collection.
ListParticipantsFilters ==
    [][Did(last', "get_participants") =>
        LET Matches(p) == p.course_id = last'.path
        IN  /\ courses' = courses
            /\ participants' = participants
            /\ IF last'.path = NoId
               THEN Ok(last') /\ last'.body = participants
               ELSE IF \A k \in 1..Len(courses) : courses[k].id # last'.path
               THEN ErrorKind(last') = "NotFound"
               ELSE Ok(last') /\ last'.body = SelectSeq(participants, Matches)]_vars

\* a list_participants(course_id) has returned two different participants and
\* left a third one out
ListParticipantsFiltersWitness ==
    /\ Did(last, "get_participants") /\ Ok(last)
    /\ last.path # NoId
    /\ Len(last.body) = 2
    /\ last.body[1] # last.body[2]
    /\ Len(participants) = 3

\* a is what is left of b when some of its elements are taken out
RECURSIVE LeftOf(_, _)
LeftOf(a, b) ==
    IF a = <<>> THEN TRUE
    ELSE IF b = <<>> THEN FALSE
    ELSE \/ (Head(a) = Head(b) /\ LeftOf(Tail(a), Tail(b)))
         \/ LeftOf(a, Tail(b))

\* the records of s that hold the same position and the same fields in s2
SamePlaces(s, s2) == {k \in 1..Len(s) : k <= Len(s2) /\ s2[k] = s[k]}

\* C14: both collections stay in insertion order: a successful create puts the
\* new record behind all the stored ones, an update keeps every record at its
\* position (one course changes, and the course_id of participants), and
\* delete_course leaves the remaining courses and participants in the order
\* they had.
InsertionOrderKept ==
    [][/\ (Did(last', "add_course") /\ Ok(last')) =>
              /\ courses' = courses \o <<last'.body>>
              /\ participants' = participants
       /\ (Did(last', "add_participant") /\ Ok(last')) =>
              /\ participants' = participants \o <<last'.body>>
              /\ courses' = courses
       /\ (Did(last', "update_course_info") /\ Ok(last')) =>
              /\ Len(courses') = Len(courses)
              /\ Cardinality(SamePlaces(courses, courses')) >= Len(courses) - 1
              /\ Len(participants') = Len(participants)
              /\ \A k \in 1..Len(participants) :
                     [participants'[k] EXCEPT !.course_id = participants[k].course_id]
                         = participants[k]
       /\ (Did(last', "update_participant_info") /\ Ok(last')) =>
              /\ Len(participants') = Len(participants)
              /\ Cardinality(SamePlaces(participants, participants'))
                     >= Len(participants) - 1
              /\ courses' = courses
       /\ (Did(last', "delete_course") /\ Ok(last')) =>
              /\ Len(courses') = Len(courses) - 1
              /\ LeftOf(courses', courses)
              /\ Len(participants') = Len(participants) - last'.cascade
              /\ LeftOf(participants', participants)]_vars

\* a delete_course has left one course and, of three participants, two
\* different ones
InsertionOrderKeptWitness ==
    /\ Did(last, "delete_course") /\ Ok(last)
    /\ Len(courses) = 1
    /\ last.cascade = 1
    /\ Len(participants) = 2
    /\ participants[1] # participants[2]

\* C16: as long as no update_participant is called, every stored participant's
\* course_id is the id of at least one stored course.
ParticipantsReferToCourses ==
    \A k \in 1..Len(participants) :
        \E i \in 1..Len(courses) : courses[i].id = participants[k].course_id

\* an update_course has moved a participant to an id that two courses now share
ParticipantsReferToCoursesWitness ==
    /\ Did(last, "update_course_info") /\ Ok(last)
    /\ last.cascade >= 1
    /\ Len(courses) = 2
    /\ courses[1].id = courses[2].id
    /\ \E k \in 1..Len(participants) : participants[k].course_id = courses[1].id

\* C17: create_course, list_courses and an update_course whose replacement
\* keeps the id never change the participant collection; create_participant,
\* update_participant and list_participants never change the course collection.
OtherCollectionUntouched ==
    [][/\ (\/ Did(last', "add_course")
           \/ Did(last', "get_courses")
           \/ (Did(last', "update_course_info") /\ last'.req.id = last'.path))
          => participants' = participants
       /\ (\/ Did(last', "add_participant")
           \/ Did(last', "update_participant_info")
           \/ Did(last', "get_participants"))
          => courses' = courses]_vars

\* an update_course that keeps the id has renamed a course while participants
\* of that course and of another course_id are stored
OtherCollectionUntouchedWitness ==
    /\ Did(last, "update_course_info") /\ Ok(last)
    /\ last.req.id = last.path
    /\ \E k \in 1..Len(participants) : participants[k].course_id = last.path
    /\ \E k \in 1..Len(participants) : participants[k].course_id # last.path

\* delete_course has taken course X out while a participant of X is stored,
\* or has emptied the participants it is about to put back
MidDelete ==
    \/ /\ inflight.pc \in {"removed", "filtered"}
       /\ \E k \in 1..Len(participants) :
              participants[k].course_id = inflight.course_id
    \/ inflight.pc = "cleared" /\ inflight.updated_participants # <<>>

\* update_course has changed the course's id from A to B while a participant
\* still has course_id A
MidUpdate ==
    /\ inflight.pc \in {"id", "name", "cascade"}
    /\ inflight.updated_course.id # inflight.course_id
    /\ \E k \in 1..Len(participants) :
           participants[k].course_id = inflight.course_id

\* C15: no other request is answered from an intermediate state of
\* delete_course or of update_course: in such a state the only step is the next
\* statement of the call in flight.
CascadesAtomic ==
    [][(MidDelete \/ MidUpdate) => inflight' # inflight]_vars

====
